---- MODULE Spec2Model ----
(***************************************************************************)
(* Model of the CSV row store (database.py) and of the upload and          *)
(* rule-based question handlers (main.py).                                 *)
(*                                                                         *)
(* Text is a sequence of one-character strings.  A Python value is a       *)
(* record [t, s, n, b]: t is the Python type ("str", "int", "bool",        *)
(* "null" for a missing cell), and s, n or b holds the value.  A dict is a *)
(* sequence of [k, v] pairs in insertion order, with distinct keys.        *)
(***************************************************************************)
EXTENDS Integers, Sequences, FiniteSets, TLC

\* ------------------------------------------------------------------ text

UpperCase == <<"A","B","C","D","E","F","G","H","I","J","K","L","M",
               "N","O","P","Q","R","S","T","U","V","W","X","Y","Z">>

LowerCase == <<"a","b","c","d","e","f","g","h","i","j","k","l","m",
               "n","o","p","q","r","s","t","u","v","w","x","y","z">>

\* str.lower() on one character
LowerChar(c) ==
    IF \E i \in DOMAIN UpperCase : UpperCase[i] = c
    THEN LowerCase[CHOOSE i \in DOMAIN UpperCase : UpperCase[i] = c]
    ELSE c

\* str.lower()
Lower(s) == [i \in DOMAIN s |-> LowerChar(s[i])]

\* Python's "sub in s" on strings
Contains(s, sub) ==
    \E i \in 0..(Len(s) - Len(sub)) : SubSeq(s, i + 1, i + Len(sub)) = sub

\* str.endswith
EndsWith(s, suffix) ==
    /\ Len(suffix) <= Len(s)
    /\ SubSeq(s, Len(s) - Len(suffix) + 1, Len(s)) = suffix

\* ---------------------------------------------------------------- values

PyStr(s)  == [t |-> "str",  s |-> s,    n |-> 0, b |-> FALSE]
PyInt(n)  == [t |-> "int",  s |-> <<>>, n |-> n, b |-> FALSE]
PyBool(b) == [t |-> "bool", s |-> <<>>, n |-> 0, b |-> b]
PyNull    == [t |-> "null", s |-> <<>>, n |-> 0, b |-> FALSE]

\* isinstance(v, str)
IsStr(v) == v.t = "str"

\* "key in d" and d[key] on a dict
HasKey(d, key) == \E i \in DOMAIN d : d[i].k = key
Get(d, key) == d[CHOOSE i \in DOMAIN d : d[i].k = key].v

\* ------------------------------------------------------------------ JSON

Digits == <<"0","1","2","3","4","5","6","7","8","9">>

IsDigit(c) == \E i \in DOMAIN Digits : Digits[i] = c

DigitValue(c) == (CHOOSE i \in DOMAIN Digits : Digits[i] = c) - 1

RECURSIVE NatToText(_)
NatToText(n) ==
    IF n < 10 THEN <<Digits[n + 1]>>
    ELSE NatToText(n \div 10) \o <<Digits[(n % 10) + 1]>>

\* json.dumps escapes the quote and the backslash inside a string
RECURSIVE EscapeText(_)
EscapeText(s) ==
    IF s = <<>> THEN <<>>
    ELSE (IF Head(s) \in {"\"", "\\"} THEN <<"\\", Head(s)>> ELSE <<Head(s)>>)
         \o EscapeText(Tail(s))

JsonDumpsStr(s) == <<"\"">> \o EscapeText(s) \o <<"\"">>

\* an encoder that writes every value as a JSON string
JsonDumpsValueAsText(v) ==
    CASE v.t = "str"  -> JsonDumpsStr(v.s)
      [] v.t = "int"  -> JsonDumpsStr(NatToText(v.n))
      [] v.t = "bool" -> JsonDumpsStr(IF v.b THEN <<"T","r","u","e">>
                                      ELSE <<"F","a","l","s","e">>)
      [] v.t = "null" -> JsonDumpsStr(<<"n","a","n">>)

\* json.dumps of one value
JsonDumpsValue(v) ==
    CASE v.t = "str"  -> JsonDumpsStr(v.s)
      [] v.t = "int"  -> IF v.n < 0 THEN <<"-">> \o NatToText(0 - v.n)
                         ELSE NatToText(v.n)
      [] v.t = "bool" -> IF v.b THEN <<"t","r","u","e">>
                         ELSE <<"f","a","l","s","e">>
      [] v.t = "null" -> <<"N","a","N">>

RECURSIVE JsonDumpsMembers(_)
JsonDumpsMembers(d) ==
    IF d = <<>> THEN <<>>
    ELSE JsonDumpsStr(Head(d).k) \o <<":", " ">> \o JsonDumpsValue(Head(d).v)
         \o (IF Tail(d) = <<>> THEN <<>> ELSE <<",", " ">>)
         \o JsonDumpsMembers(Tail(d))

\* json.dumps(row_data)
JsonDumps(d) == <<"{">> \o JsonDumpsMembers(d) \o <<"}">>

\* the scanner of a JSON string; i is the place after the opening quote
RECURSIVE ParseString(_, _, _)
ParseString(s, i, acc) ==
    IF s[i] = "\"" THEN [v |-> acc, next |-> i + 1]
    ELSE IF s[i] = "\\" THEN ParseString(s, i + 2, Append(acc, s[i + 1]))
    ELSE ParseString(s, i + 1, Append(acc, s[i]))

RECURSIVE ParseNat(_, _, _)
ParseNat(s, i, acc) ==
    IF i <= Len(s) /\ IsDigit(s[i])
    THEN ParseNat(s, i + 1, acc * 10 + DigitValue(s[i]))
    ELSE [v |-> acc, next |-> i]

\* the scanner of one JSON value starting at place i
ParseValue(s, i) ==
    CASE s[i] = "\"" -> LET r == ParseString(s, i + 1, <<>>)
                        IN  [v |-> PyStr(r.v), next |-> r.next]
      [] s[i] = "t"  -> [v |-> PyBool(TRUE), next |-> i + 4]
      [] s[i] = "f"  -> [v |-> PyBool(FALSE), next |-> i + 5]
      [] s[i] = "N"  -> [v |-> PyNull, next |-> i + 3]
      [] s[i] = "-"  -> LET r == ParseNat(s, i + 1, 0)
                        IN  [v |-> PyInt(0 - r.v), next |-> r.next]
      [] OTHER       -> LET r == ParseNat(s, i, 0)
                        IN  [v |-> PyInt(r.v), next |-> r.next]

\* the members of a JSON object; i is the place of the next key or of "}"
RECURSIVE ParseMembers(_, _, _)
ParseMembers(s, i, acc) ==
    IF s[i] = "}" THEN acc
    ELSE LET key == ParseString(s, i + 1, <<>>)
             val == ParseValue(s, key.next + 2)
             d   == Append(acc, [k |-> key.v, v |-> val.v])
         IN  IF s[val.next] = "," THEN ParseMembers(s, val.next + 2, d)
             ELSE d

\* json.loads(row['row_data'])
JsonLoads(s) == ParseMembers(s, 2, <<>>)

\* ------------------------------------------------------------ the inputs

MaxBatch == 2

MaxRows == 2

Procs == {"w1", "w2"}

item_name    == <<"i","t","e","m","_","n","a","m","e">>
product_name == <<"p","r","o","d","u","c","t","_","n","a","m","e">>
price        == <<"p","r","i","c","e">>
quantity     == <<"q","u","a","n","t","i","t","y">>
stock        == <<"s","t","o","c","k">>
warehouse    == <<"w","a","r","e","h","o","u","s","e">>
note         == <<"n","o","t","e">>

\* the rows of the uploaded files, as row.to_dict() gives them; the rows of
\* one file share their columns, and a column holds one type
RowApple    == <<[k |-> item_name, v |-> PyStr(<<"A","p","p","l","e">>)],
                 [k |-> price, v |-> PyInt(15)]>>
RowMissing  == <<[k |-> item_name, v |-> PyStr(<<"a","p","p","l","e">>)],
                 [k |-> price, v |-> PyNull]>>
RowPie      == <<[k |-> product_name, v |-> PyStr(<<"a","p","p","l","e"," ","p","i","e">>)],
                 [k |-> price, v |-> PyStr(<<"N","o","t"," ","f","o","u","n","d">>)]>>
RowQuantity == <<[k |-> item_name, v |-> PyStr(<<"a","p","p","l","e">>)],
                 [k |-> quantity, v |-> PyInt(10)]>>
RowCode     == <<[k |-> item_name, v |-> PyInt(5)],
                 [k |-> product_name, v |-> PyStr(<<"p","e","a","r">>)],
                 [k |-> stock, v |-> PyBool(TRUE)],
                 [k |-> note, v |-> PyStr(<<"1","5","\"","\\">>)]>>
RowPlace    == <<[k |-> warehouse, v |-> PyStr(<<"e","a","s","t">>)],
                 [k |-> quantity, v |-> PyInt(3)]>>

RowPool == {RowApple, RowMissing, RowPie, RowQuantity, RowCode, RowPlace}

\* the columns of a row, and the type of each
Columns(row) == [i \in DOMAIN row |-> row[i].k]

SameColumns(r1, r2) ==
    /\ Columns(r1) = Columns(r2)
    /\ \A i \in DOMAIN r1 :
          r1[i].v.t = r2[i].v.t \/ "null" \in {r1[i].v.t, r2[i].v.t}

\* the data frames pd.read_csv can give: up to MaxBatch rows over the same
\* columns (no row when the file holds its header line only)
DataFrames ==
    {df \in UNION {[1..n -> RowPool] : n \in 0..MaxBatch} :
        \A i, j \in DOMAIN df : SameColumns(df[i], df[j])}

CsvSuffix == <<".","c","s","v">>

Filenames == {<<"a",".","c","s","v">>, <<"b",".","c","s","v">>, <<"a",".","t","x","t">>}

ParseErrors == {"EmptyDataError", "ParserError", "UnicodeDecodeError"}

\* ------------------------------------------------------------- the state

VARIABLES
    data,               \* table data, in rowid order
    sqlite_sequence,    \* the largest id AUTOINCREMENT has given
    db_lock,            \* the connection holding the write lock, or "free"
    clock,              \* the last value datetime.now() returned
    pc,                 \* upload_csv of each worker: idle, insert, commit, done
    file,               \* its file.filename and data frame
    index,              \* its place in df.iterrows()
    rows_inserted,      \* its counter
    pending,            \* the row of its open transaction
    response,           \* its HTTP response
    calls,              \* the insert_data_row calls that returned
    asked,              \* ask_data_ai: whether the request was handled
    user_question,
    all_data_rows,
    found_item_name,
    found_attribute,
    answer

storeVars == <<data, sqlite_sequence, db_lock, clock>>
uploadVars == <<pc, file, index, rows_inserted, pending, response, calls>>
askVars == <<asked, user_question, all_data_rows, found_item_name,
             found_attribute, answer>>
vars == <<storeVars, uploadVars, askVars>>

\* insert_data_row returns None
NoId == 0

NoFile == [filename |-> <<>>, df |-> <<>>]

NoResponse == [status_code |-> 0, detail |-> "", rows |-> 0]

NoAnswer == [status_code |-> 0, kind |-> "", attribute |-> <<>>,
             item |-> <<>>, value |-> PyNull]

\* ------------------------------------------------------------- the store

\* a store that gives the largest id again
NextRowidReused(seq) == IF seq = 0 THEN 1 ELSE seq

\* id INTEGER PRIMARY KEY AUTOINCREMENT: one more than the largest id given
NextRowid(seq) == seq + 1

\* the row an INSERT writes
NewRow(id, filename, row_data, now) ==
    [id |-> id, original_filename |-> filename,
     row_data |-> JsonDumps(row_data), upload_timestamp |-> now]

\* a fetched row with row_data decoded
Decoded(row) == [row EXCEPT !.row_data = JsonLoads(row.row_data)]

\* get_data_by_id: the row of that id, decoded, or none
GetDataById(table, item_id) ==
    LET found == SelectSeq(table, LAMBDA r : r.id = item_id)
    IN  IF found = <<>> THEN <<>> ELSE <<Decoded(found[1])>>

\* df.isnull().values.any()
HasNull(df) == \E i \in DOMAIN df : \E j \in DOMAIN df[i] : df[i][j].v.t = "null"

\* the rows the running uploads have yet to insert or have inserted
RECURSIVE Accepted(_, _)
Accepted(ps, f) ==
    IF ps = {} THEN 0
    ELSE LET p == CHOOSE q \in ps : TRUE
         IN  (IF HasNull(f[p].df) THEN 0 ELSE Len(f[p].df)) + Accepted(ps \ {p}, f)

StoreInit ==
    /\ data = <<>>
    /\ sqlite_sequence = 0
    /\ db_lock = "free"
    /\ clock = 0

UploadInit ==
    /\ pc = [p \in Procs |-> "idle"]
    /\ file = [p \in Procs |-> NoFile]
    /\ index = [p \in Procs |-> 0]
    /\ rows_inserted = [p \in Procs |-> 0]
    /\ pending = [p \in Procs |-> <<>>]
    /\ response = [p \in Procs |-> NoResponse]
    /\ calls = {}

AskInit ==
    /\ asked = FALSE
    /\ user_question = <<>>
    /\ all_data_rows = <<>>
    /\ found_item_name = <<>>
    /\ found_attribute = <<>>
    /\ answer = NoAnswer

Init == StoreInit /\ UploadInit /\ AskInit

\* ------------------------------------------------------------ upload_csv

\* the handler ends with this response
Respond(p, status, detail, rows) ==
    /\ pc' = [pc EXCEPT ![p] = "done"]
    /\ response' = [response EXCEPT ![p] =
                       [status_code |-> status, detail |-> detail, rows |-> rows]]

\* not a .csv file name: 400, raised before the try block
UploadWrongType(p, filename, df) ==
    /\ pc[p] = "idle"
    /\ ~EndsWith(filename, CsvSuffix)
    /\ file' = [file EXCEPT ![p] = [filename |-> filename, df |-> df]]
    /\ Respond(p, 400, "Invalid file type", 0)
    /\ UNCHANGED <<storeVars, index, rows_inserted, pending, calls, askVars>>

\* pd.read_csv or decode raises: each has its own except clause, 400
UploadUnreadable(p, filename, err) ==
    /\ pc[p] = "idle"
    /\ EndsWith(filename, CsvSuffix)
    /\ file' = [file EXCEPT ![p] = [filename |-> filename, df |-> <<>>]]
    /\ Respond(p, 400, err, 0)
    /\ UNCHANGED <<storeVars, index, rows_inserted, pending, calls, askVars>>

\* a missing value: HTTPException(400) is raised inside the try block, where
\* "except Exception" catches it and raises HTTPException(500) in its place
UploadMissingValues(p, filename, df) ==
    /\ pc[p] = "idle"
    /\ EndsWith(filename, CsvSuffix)
    /\ HasNull(df)
    /\ file' = [file EXCEPT ![p] = [filename |-> filename, df |-> df]]
    /\ Respond(p, 500, "An unexpected error occurred", 0)
    /\ UNCHANGED <<storeVars, index, rows_inserted, pending, calls, askVars>>

\* a complete data frame: the loop over its rows starts, or ends at once
UploadCsv(p, filename, df) ==
    /\ pc[p] = "idle"
    /\ EndsWith(filename, CsvSuffix)
    /\ ~HasNull(df)
    /\ Accepted(Procs, file) + Len(df) <= MaxRows
    /\ file' = [file EXCEPT ![p] = [filename |-> filename, df |-> df]]
    /\ IF df = <<>>
       THEN /\ Respond(p, 200, "uploaded", 0)
            /\ index' = index
       ELSE /\ pc' = [pc EXCEPT ![p] = "insert"]
            /\ index' = [index EXCEPT ![p] = 1]
            /\ response' = response
    /\ UNCHANGED <<storeVars, rows_inserted, pending, calls, askVars>>

\* insert_data_row returned ret: upload_csv drops it, counts the row and
\* takes the next one, or responds with its count
Returned(p, ret) ==
    /\ calls' = calls \cup {[proc |-> p, index |-> index[p],
                             filename |-> file[p].filename,
                             row_data |-> file[p].df[index[p]], ret |-> ret]}
    /\ rows_inserted' = [rows_inserted EXCEPT ![p] = @ + 1]
    /\ IF index[p] < Len(file[p].df)
       THEN /\ pc' = [pc EXCEPT ![p] = "insert"]
            /\ index' = [index EXCEPT ![p] = @ + 1]
            /\ response' = response
       ELSE /\ Respond(p, 200, "uploaded", rows_inserted[p] + 1)
            /\ index' = index

\* cursor.execute(INSERT ...): takes the write lock and gives the row its id
Execute(p) ==
    /\ pc[p] = "insert"
    /\ db_lock = "free"
    /\ \E now \in {clock, clock + 1} :
          /\ clock' = now
          /\ pending' = [pending EXCEPT ![p] =
                <<NewRow(NextRowid(sqlite_sequence), file[p].filename,
                         file[p].df[index[p]], now)>>]
    /\ db_lock' = p
    /\ pc' = [pc EXCEPT ![p] = "commit"]
    /\ UNCHANGED <<data, sqlite_sequence, file, index, rows_inserted, response,
                   calls, askVars>>

\* cursor.execute raises sqlite3.Error (the database stays locked by another
\* connection, or the disk fails): rollback, return None
ExecuteError(p) ==
    /\ pc[p] = "insert"
    /\ Returned(p, NoId)
    /\ UNCHANGED <<storeVars, file, pending, askVars>>

\* conn.commit(), return cursor.lastrowid
Commit(p) ==
    /\ pc[p] = "commit"
    /\ data' = Append(data, pending[p][1])
    /\ sqlite_sequence' = pending[p][1].id
    /\ db_lock' = "free"
    /\ pending' = [pending EXCEPT ![p] = <<>>]
    /\ Returned(p, pending[p][1].id)
    /\ UNCHANGED <<clock, file, askVars>>

\* conn.commit() raises sqlite3.Error: rollback, return None
CommitError(p) ==
    /\ pc[p] = "commit"
    /\ db_lock' = "free"
    /\ pending' = [pending EXCEPT ![p] = <<>>]
    /\ Returned(p, NoId)
    /\ UNCHANGED <<data, sqlite_sequence, clock, file, askVars>>

Next ==
    \/ \E p \in Procs, f \in Filenames, df \in DataFrames : UploadWrongType(p, f, df)
    \/ \E p \in Procs, f \in Filenames, e \in ParseErrors : UploadUnreadable(p, f, e)
    \/ \E p \in Procs, f \in Filenames, df \in DataFrames : UploadMissingValues(p, f, df)
    \/ \E p \in Procs, f \in Filenames, df \in DataFrames : UploadCsv(p, f, df)
    \/ \E p \in Procs : Execute(p)
    \/ \E p \in Procs : ExecuteError(p)
    \/ \E p \in Procs : Commit(p)
    \/ \E p \in Procs : CommitError(p)

Spec == Init /\ [][Next]_vars

\* ------------------------------------------------------------ ask_data_ai

\* the questions asked
Questions ==
    {<<>>,
     <<"P","r","i","c","e"," ","o","f"," ","A","p","p","l","e">>,
     <<"p","r","i","c","e"," ","o","f"," ","a","p","p","l","e"," ","p","i","e">>,
     <<"t","e","l","l"," ","m","e"," ","a","b","o","u","t"," ","a","p","p","l","e">>,
     <<"w","h","a","t"," ","i","s"," ","t","h","e"," ","p","r","i","c","e">>,
     <<"h","e","l","l","o">>,
     <<"i","t","e","m"," ","c","o","s","t">>,
     <<"n","a","m","e"," ","o","f"," ","p","e","a","r">>,
     <<"s","t","o","c","k"," ","o","f"," ","p","e","a","r">>,
     <<"w","h","e","r","e"," ","i","s"," ","e","a","s","t">>,
     <<"q","u","a","n","t","i","t","y"," ","o","f"," ","a","p","p","l","e">>,
     <<"p","r","o","d","u","c","t"," ","5">>,
     <<"i","n","v","e","n","t","o","r","y">>,
     <<"a","m","o","u","n","t"," ","a","v","a","i","l","a","b","l","e">>}

\* a table that lists item_name before product_name
AttributeKeywordsItemFirst ==
    <<[attr |-> price,        keywords |-> <<<<"p","r","i","c","e">>, <<"c","o","s","t">>, <<"v","a","l","u","e">>>>],
      [attr |-> quantity,     keywords |-> <<<<"q","u","a","n","t","i","t","y">>, <<"n","u","m","b","e","r">>, <<"a","m","o","u","n","t">>>>],
      [attr |-> stock,        keywords |-> <<<<"s","t","o","c","k">>, <<"i","n","v","e","n","t","o","r","y">>, <<"a","v","a","i","l","a","b","l","e">>>>],
      [attr |-> warehouse,    keywords |-> <<<<"w","a","r","e","h","o","u","s","e">>, <<"l","o","c","a","t","i","o","n">>, <<"w","h","e","r","e">>>>],
      [attr |-> item_name,    keywords |-> <<<<"i","t","e","m">>, <<"n","a","m","e">>, <<"p","r","o","d","u","c","t">>>>],
      [attr |-> product_name, keywords |-> <<<<"p","r","o","d","u","c","t">>, <<"i","t","e","m">>, <<"n","a","m","e">>>>]>>

\* attribute_keywords, in the order of the dict
AttributeKeywords ==
    <<[attr |-> price,        keywords |-> <<<<"p","r","i","c","e">>, <<"c","o","s","t">>, <<"v","a","l","u","e">>>>],
      [attr |-> quantity,     keywords |-> <<<<"q","u","a","n","t","i","t","y">>, <<"n","u","m","b","e","r">>, <<"a","m","o","u","n","t">>>>],
      [attr |-> stock,        keywords |-> <<<<"s","t","o","c","k">>, <<"i","n","v","e","n","t","o","r","y">>, <<"a","v","a","i","l","a","b","l","e">>>>],
      [attr |-> warehouse,    keywords |-> <<<<"w","a","r","e","h","o","u","s","e">>, <<"l","o","c","a","t","i","o","n">>, <<"w","h","e","r","e">>>>],
      [attr |-> product_name, keywords |-> <<<<"p","r","o","d","u","c","t">>, <<"i","t","e","m">>, <<"n","a","m","e">>>>],
      [attr |-> item_name,    keywords |-> <<<<"i","t","e","m">>, <<"n","a","m","e">>, <<"p","r","o","d","u","c","t">>>>]>>

\* ['item_name', 'product_name']
NameFields == <<item_name, product_name>>

\* retrieved_value = "Not found"
NotFound == PyStr(<<"N","o","t"," ","f","o","u","n","d">>)

\* a scan without the type guard
AnyValue(v) == TRUE

\* isinstance(row_data[key], str), the guard of the two scans
IsInstanceStr(v) == IsStr(v)

\* v.lower() raises AttributeError on a value that is no string
LowerRaises(v) == v.t # "str"

\* get_all_data: the rows ORDER BY upload_timestamp DESC, decoded; rows of one
\* timestamp come in any order
GetAllData(table) ==
    LET n == Len(table)
        orders == {f \in [1..n -> 1..n] :
                     /\ \A i, j \in 1..n : i # j => f[i] # f[j]
                     /\ \A i, j \in 1..n : i < j =>
                           table[f[i]].upload_timestamp >= table[f[j]].upload_timestamp}
    IN  {[i \in 1..n |-> Decoded(table[f[i]])] : f \in orders}

\* the inner loop of the item scan: the first name field of the row that is a
\* string found in the question, lowercased; err when .lower() raised
RECURSIVE ScanFields(_, _, _)
ScanFields(row_data, fields, question) ==
    IF fields = <<>> THEN [err |-> FALSE, s |-> <<>>]
    ELSE LET key == Head(fields)
         IN  IF HasKey(row_data, key) /\ IsInstanceStr(Get(row_data, key))
             THEN IF LowerRaises(Get(row_data, key))
                  THEN [err |-> TRUE, s |-> <<>>]
                  ELSE LET data_item_name == Lower(Get(row_data, key).s)
                       IN  IF Contains(question, data_item_name)
                           THEN [err |-> FALSE, s |-> data_item_name]
                           ELSE ScanFields(row_data, Tail(fields), question)
             ELSE ScanFields(row_data, Tail(fields), question)

\* an item scan that does not stop: the last row that gives a name wins
RECURSIVE FindItemNameLast(_, _)
FindItemNameLast(rows, question) ==
    IF rows = <<>> THEN [err |-> FALSE, s |-> <<>>]
    ELSE LET r    == ScanFields(Head(rows).row_data, NameFields, question)
             rest == FindItemNameLast(Tail(rows), question)
         IN  IF r.err THEN r
             ELSE IF rest.err \/ rest.s # <<>> THEN rest
             ELSE r

\* the outer loop of the item scan: stops at the first row that gave a name
\* (None and the empty name are both written <<>>: the handler tests only
\* "if found_item_name")
RECURSIVE FindItemName(_, _)
FindItemName(rows, question) ==
    IF rows = <<>> THEN [err |-> FALSE, s |-> <<>>]
    ELSE LET r == ScanFields(Head(rows).row_data, NameFields, question)
         IN  IF r.err \/ r.s # <<>> THEN r
             ELSE FindItemName(Tail(rows), question)

\* the inner loop of the attribute scan
RECURSIVE AnyKeyword(_, _)
AnyKeyword(keywords, question) ==
    IF keywords = <<>> THEN FALSE
    ELSE IF Contains(question, Head(keywords)) THEN TRUE
    ELSE AnyKeyword(Tail(keywords), question)

\* an attribute scan that does not stop: the last attribute found wins
RECURSIVE FindAttributeLast(_, _)
FindAttributeLast(table, question) ==
    IF table = <<>> THEN <<>>
    ELSE LET rest == FindAttributeLast(Tail(table), question)
         IN  IF rest # <<>> THEN rest
             ELSE IF AnyKeyword(Head(table).keywords, question) THEN Head(table).attr
             ELSE <<>>

\* the outer loop of the attribute scan: stops at the first attribute found
RECURSIVE FindAttribute(_, _)
FindAttribute(table, question) ==
    IF table = <<>> THEN <<>>
    ELSE IF AnyKeyword(Head(table).keywords, question) THEN Head(table).attr
    ELSE FindAttribute(Tail(table), question)

\* item_match of one row: item_name, or else product_name, is that name
ItemMatch(row_data, name) ==
    \E i \in DOMAIN NameFields :
        /\ HasKey(row_data, NameFields[i])
        /\ IsInstanceStr(Get(row_data, NameFields[i]))
        /\ Lower(Get(row_data, NameFields[i]).s) = name

\* a value scan that stops at the first row that matches the item
RECURSIVE RetrieveValueFirstMatch(_, _, _)
RetrieveValueFirstMatch(rows, name, attr) ==
    IF rows = <<>> THEN NotFound
    ELSE IF ItemMatch(Head(rows).row_data, name)
         THEN IF HasKey(Head(rows).row_data, attr)
              THEN Get(Head(rows).row_data, attr)
              ELSE NotFound
         ELSE RetrieveValueFirstMatch(Tail(rows), name, attr)

\* the value scan: the value of the first row that matches the item and has
\* the attribute, "Not found" when no row does
RECURSIVE RetrieveValue(_, _, _)
RetrieveValue(rows, name, attr) ==
    IF rows = <<>> THEN NotFound
    ELSE IF ItemMatch(Head(rows).row_data, name) /\ HasKey(Head(rows).row_data, attr)
         THEN Get(Head(rows).row_data, attr)
         ELSE RetrieveValue(Tail(rows), name, attr)

\* a response that names no attribute when no item was found
ComposeWithoutHint(rows, name, attr) ==
    IF name = <<>>
    THEN [status_code |-> 200, kind |-> "not_understood", attribute |-> <<>>,
          item |-> <<>>, value |-> PyNull]
    ELSE IF attr = <<>>
    THEN [status_code |-> 200, kind |-> "need_attribute", attribute |-> <<>>,
          item |-> name, value |-> PyNull]
    ELSE LET retrieved_value == RetrieveValue(rows, name, attr)
         IN  IF retrieved_value # NotFound
             THEN [status_code |-> 200, kind |-> "value", attribute |-> attr,
                   item |-> name, value |-> retrieved_value]
             ELSE [status_code |-> 200, kind |-> "not_found", attribute |-> attr,
                   item |-> name, value |-> PyNull]

\* the response for what the two scans found
Compose(rows, name, attr) ==
    IF name = <<>> /\ attr = <<>>
    THEN [status_code |-> 200, kind |-> "not_understood", attribute |-> <<>>,
          item |-> <<>>, value |-> PyNull]
    ELSE IF name = <<>>
    THEN [status_code |-> 200, kind |-> "need_item", attribute |-> attr,
          item |-> <<>>, value |-> PyNull]
    ELSE IF attr = <<>>
    THEN [status_code |-> 200, kind |-> "need_attribute", attribute |-> <<>>,
          item |-> name, value |-> PyNull]
    ELSE LET retrieved_value == RetrieveValue(rows, name, attr)
         IN  IF retrieved_value # NotFound
             THEN [status_code |-> 200, kind |-> "value", attribute |-> attr,
                   item |-> name, value |-> retrieved_value]
             ELSE [status_code |-> 200, kind |-> "not_found", attribute |-> attr,
                   item |-> name, value |-> PyNull]

\* the handler of /ask-data-ai/
AskDataAi(question) ==
    /\ ~asked
    /\ asked' = TRUE
    /\ user_question' = Lower(question)
    /\ IF Lower(question) = <<>>
       THEN /\ answer' = [NoAnswer EXCEPT !.status_code = 400, !.kind = "no_question"]
            /\ UNCHANGED <<all_data_rows, found_item_name, found_attribute>>
       ELSE \E rows \in GetAllData(data) :
              /\ all_data_rows' = rows
              /\ IF rows = <<>>
                 THEN /\ answer' = [NoAnswer EXCEPT !.status_code = 200, !.kind = "no_data"]
                      /\ UNCHANGED <<found_item_name, found_attribute>>
                 ELSE LET found == FindItemName(rows, Lower(question))
                          attr  == FindAttribute(AttributeKeywords, Lower(question))
                      IN  IF found.err
                          THEN /\ answer' = [NoAnswer EXCEPT !.status_code = 500,
                                                             !.kind = "error"]
                               /\ UNCHANGED <<found_item_name, found_attribute>>
                          ELSE /\ found_item_name' = found.s
                               /\ found_attribute' = attr
                               /\ answer' = Compose(rows, found.s, attr)
    /\ UNCHANGED <<storeVars, uploadVars>>

\* the complete rows of the pool
CompleteRows == {r \in RowPool : \A i \in DOMAIN r : r[i].v.t # "null"}

\* a table after earlier uploads: up to MaxRows complete rows with the ids
\* 1, 2, ... and timestamps that never go back
ResolverInit ==
    /\ \E n \in 0..MaxRows :
       \E rows \in [1..n -> CompleteRows] :
       \E stamp \in [1..n -> 1..n] :
          /\ n > 0 => stamp[1] = 1
          /\ \A i \in 1..(n - 1) : stamp[i + 1] \in {stamp[i], stamp[i] + 1}
          /\ data = [i \in 1..n |->
                       NewRow(i, <<"a",".","c","s","v">>, rows[i], stamp[i])]
          /\ sqlite_sequence = n
          /\ clock = IF n = 0 THEN 0 ELSE stamp[n]
    /\ db_lock = "free"
    /\ UploadInit
    /\ AskInit

ResolverNext == \E q \in Questions : AskDataAi(q)

ResolverSpec == ResolverInit /\ [][ResolverNext]_vars


\* ------------------------------------------------- the claims on the store

\* the upload for which df.isnull().values.any() held
RejectedForNull(p) ==
    /\ pc[p] = "done"
    /\ EndsWith(file[p].filename, CsvSuffix)
    /\ HasNull(file[p].df)

\* the calls of worker p that returned an id whose row is in the table
StoredCalls(p) ==
    {c \in calls : c.proc = p /\ c.ret # NoId /\ GetDataById(data, c.ret) # <<>>}

\* C1: an upload whose data frame has a missing value is rejected with the
\* validation error (400, missing values), and no row of it is inserted.
C1_RejectedWithValidationError ==
    \A p \in Procs :
        RejectedForNull(p) =>
            /\ response[p].status_code = 400
            /\ \A c \in calls : c.proc # p

\* the rejected upload made no insert_data_row call and holds no transaction:
\* the half of the statement above that the handler keeps
RejectedUploadStoresNothing ==
    \A p \in Procs :
        RejectedForNull(p) =>
            /\ response[p].status_code = 500
            /\ rows_inserted[p] = 0
            /\ pending[p] = <<>>
            /\ \A c \in calls : c.proc # p

\* C2: when an upload of N complete rows answers 200, the table holds N rows of
\* it, one per row of the data frame, and the count it reports is N.
C2_SuccessStoresEveryRow ==
    \A p \in Procs :
        (pc[p] = "done" /\ response[p].status_code = 200) =>
            /\ response[p].rows = Len(file[p].df)
            /\ Cardinality(StoredCalls(p)) = Len(file[p].df)

\* C3, as stated: once the concurrent calls have all returned, the ids they
\* returned are as many as the calls.
C3_EveryCallReturnsItsOwnId ==
    (\A p \in Procs : pc[p] = "done") =>
        Cardinality({c.ret : c \in calls} \ {NoId}) = Cardinality(calls)

\* C3, amended: the ids returned by the calls that did not fail are pairwise
\* distinct, each is the id of a stored row, and no two rows of the table (or
\* of an open transaction) share an id.
C3_ReturnedIdsDistinct ==
    /\ \A c1, c2 \in calls :
          (c1 # c2 /\ c1.ret # NoId /\ c2.ret # NoId) => c1.ret # c2.ret
    /\ \A c \in calls : c.ret # NoId => \E i \in DOMAIN data : data[i].id = c.ret
    /\ \A i, j \in DOMAIN data : i # j => data[i].id # data[j].id
    /\ \A p \in Procs : \A i \in DOMAIN data :
          pending[p] # <<>> => pending[p][1].id # data[i].id

\* two workers inserted while the other's upload was running, and both calls
\* returned an id
C3_Witness ==
    \E c1, c2 \in calls :
        /\ c1.proc # c2.proc
        /\ c1.ret # NoId /\ c2.ret # NoId
        /\ \A p \in Procs : pc[p] = "done"

\* C4: get_data_by_id on the id an insert_data_row call returned gives, after
\* any further inserts, a row whose row_data is the dict that was passed and
\* whose original_filename is the file name that was passed.
C4_RoundTrip ==
    \A c \in calls :
        c.ret # NoId =>
            LET r == GetDataById(data, c.ret)
            IN  /\ r # <<>>
                /\ r[1].row_data = c.row_data
                /\ r[1].original_filename = c.filename

\* a row with a quoted text, a number and a boolean was read back after a
\* later insert
C4_Witness ==
    \E c \in calls :
        /\ c.ret # NoId
        /\ c.row_data = RowCode
        /\ Len(data) >= 2
        /\ data[Len(data)].id # c.ret
        /\ GetDataById(data, c.ret)[1].row_data = RowCode

\* ---------------------------------------------- the claims on ask_data_ai

\* the handler answered a question that is not empty
Answered == asked /\ user_question # <<>>

\* the two scans ran: the question is not empty, rows exist, nothing raised
Scanned == Answered /\ answer.kind \notin {"no_data", "error"}

\* the name field key of the row is a string that occurs in the question
Qualifies(row_data, key, question) ==
    /\ HasKey(row_data, key)
    /\ IsStr(Get(row_data, key))
    /\ Contains(question, Lower(Get(row_data, key).s))

RowQualifies(row_data, question) ==
    Qualifies(row_data, item_name, question) \/ Qualifies(row_data, product_name, question)

\* some row of the row set names an item of the question
ItemMatched == \E i \in DOMAIN all_data_rows :
                  RowQualifies(all_data_rows[i].row_data, user_question)

\* the keywords the table lists for an attribute
KeywordsOf(attr) ==
    UNION {{AttributeKeywords[i].keywords[j] : j \in DOMAIN AttributeKeywords[i].keywords} :
              i \in {k \in DOMAIN AttributeKeywords : AttributeKeywords[k].attr = attr}}

\* some keyword of the attribute occurs in the question
Triggered(attr, question) == \E kw \in KeywordsOf(attr) : Contains(question, kw)

CanonicalOrder == <<price, quantity, stock, warehouse, product_name, item_name>>

AttributeMatched == \E i \in DOMAIN CanonicalOrder : Triggered(CanonicalOrder[i], user_question)

\* item_name or product_name of the row is a string equal, lowercased, to name
KeyMatch(row_data, name) ==
    \E key \in {item_name, product_name} :
        /\ HasKey(row_data, key)
        /\ IsStr(Get(row_data, key))
        /\ Lower(Get(row_data, key).s) = name

BothMatched == Scanned /\ found_item_name # <<>> /\ found_attribute # <<>>

\* the least member of a set of numbers that is not empty
Least(S) == CHOOSE i \in S : \A j \in S : i <= j

\* the rows that match the found item, and those of them with the attribute
MatchingRows ==
    {i \in DOMAIN all_data_rows : KeyMatch(all_data_rows[i].row_data, found_item_name)}

AnsweringRows ==
    {i \in MatchingRows : HasKey(all_data_rows[i].row_data, found_attribute)}

\* C5, as stated: with an item and an attribute matched, the first row that
\* matches the item decides: without the attribute field the answer is the
\* not-found message, with it the answer is that row's value.
C5_FirstItemRowDecides ==
    BothMatched =>
        LET first == all_data_rows[Least(MatchingRows)].row_data
        IN  IF HasKey(first, found_attribute)
            THEN answer.kind = "value" => answer.value = Get(first, found_attribute)
            ELSE answer.kind = "not_found"

\* C5, amended: the first row that matches the item and has the attribute field
\* decides; rows that match the item without the field are passed over; the
\* not-found message is given when no row matches with the field, or when the
\* value found is the text "Not found".
C5_FirstRowWithAttributeDecides ==
    BothMatched =>
        IF AnsweringRows = {}
        THEN answer.kind = "not_found"
        ELSE LET v == Get(all_data_rows[Least(AnsweringRows)].row_data, found_attribute)
             IN  IF v = NotFound
                 THEN answer.kind = "not_found"
                 ELSE answer.kind = "value" /\ answer.value = v

\* the first row of the item lacks the attribute, a later one has it, and its
\* value is the answer
C5_Witness ==
    /\ BothMatched
    /\ AnsweringRows # {}
    /\ Least(MatchingRows) < Least(AnsweringRows)
    /\ answer.kind = "value"

\* the response the pair (item matched, attribute matched) calls for
ByPrecedence ==
    /\ (~ItemMatched /\ ~AttributeMatched) => answer.kind = "not_understood"
    /\ (~ItemMatched /\ AttributeMatched) =>
          /\ answer.kind = "need_item"
          /\ answer.attribute # <<>>
          /\ Triggered(answer.attribute, user_question)
    /\ (ItemMatched /\ ~AttributeMatched) =>
          /\ answer.kind = "need_attribute"
          /\ answer.item # <<>>
          /\ \E i \in DOMAIN all_data_rows :
                KeyMatch(all_data_rows[i].row_data, answer.item)
    /\ (ItemMatched /\ AttributeMatched) => answer.kind \in {"value", "not_found"}

\* C6, as stated: for every question that is not empty and every row set, the
\* response follows the pair (item matched, attribute matched).
C6_PrecedenceForEveryRowSet == Answered => ByPrecedence

\* C6, amended: with no row stored the response is the no-data message,
\* whatever the question; with rows, the response follows the pair.
C6_PrecedenceWhenRowsExist ==
    Answered =>
        IF all_data_rows = <<>> THEN answer.kind = "no_data" ELSE ByPrecedence

\* rows exist, a keyword of price is in the question, no item is, and the
\* response names price and asks for the item
C6_Witness ==
    /\ Answered
    /\ all_data_rows # <<>>
    /\ ~ItemMatched
    /\ answer.kind = "need_item"
    /\ answer.attribute = price

\* C7: the rows are scanned latest timestamp first, and the item found is the
\* lowercased value of the first name field that qualifies: first row in that
\* order, item_name before product_name; none when no field qualifies.
C7_FirstQualifyingField ==
    Scanned =>
        /\ \A i, j \in DOMAIN all_data_rows :
              i < j => /\ all_data_rows[i].upload_timestamp >= all_data_rows[j].upload_timestamp
                       /\ all_data_rows[i].upload_timestamp > all_data_rows[j].upload_timestamp
                             => all_data_rows[i].id > all_data_rows[j].id
        /\ IF ItemMatched
           THEN LET row == all_data_rows[Least({i \in DOMAIN all_data_rows :
                              RowQualifies(all_data_rows[i].row_data, user_question)})].row_data
                IN  found_item_name =
                       IF Qualifies(row, item_name, user_question)
                       THEN Lower(Get(row, item_name).s)
                       ELSE Lower(Get(row, product_name).s)
           ELSE found_item_name = <<>>

\* "price of apple pie" with the row of apple scanned before the row of apple
\* pie: apple is found
C7_Witness ==
    /\ Scanned
    /\ user_question = <<"p","r","i","c","e"," ","o","f"," ","a","p","p","l","e"," ","p","i","e">>
    /\ found_item_name = <<"a","p","p","l","e">>
    /\ \E j \in DOMAIN all_data_rows :
          /\ j > 1
          /\ Qualifies(all_data_rows[j].row_data, product_name, user_question)
          /\ Get(all_data_rows[j].row_data, product_name) = PyStr(<<"a","p","p","l","e"," ","p","i","e">>)

\* C8: for every question that is not empty and every row set the handler
\* answers 200 with one of its messages; nothing raises.
C8_ResolverTotal ==
    Answered =>
        /\ answer.status_code = 200
        /\ answer.kind \in {"no_data", "not_understood", "need_item",
                            "need_attribute", "value", "not_found"}

\* a row whose item_name is a number and a row without name fields were
\* scanned, and the handler answered
C8_Witness ==
    /\ Answered
    /\ answer.status_code = 200
    /\ \E i \in DOMAIN all_data_rows :
          /\ HasKey(all_data_rows[i].row_data, item_name)
          /\ ~IsStr(Get(all_data_rows[i].row_data, item_name))
    /\ \E i \in DOMAIN all_data_rows :
          /\ ~HasKey(all_data_rows[i].row_data, item_name)
          /\ ~HasKey(all_data_rows[i].row_data, product_name)

\* C9: the attribute found is the first of price, quantity, stock, warehouse,
\* product_name, item_name with a keyword in the question, which the question
\* alone decides; none is found exactly when the question has no keyword.
C9_FirstTriggeredAttribute ==
    Scanned =>
        IF AttributeMatched
        THEN found_attribute =
                CanonicalOrder[Least({i \in DOMAIN CanonicalOrder :
                                        Triggered(CanonicalOrder[i], user_question)})]
        ELSE found_attribute = <<>>

\* "amount available" has keywords of quantity and of stock: quantity is found
C9_Witness ==
    /\ Scanned
    /\ Triggered(stock, user_question)
    /\ Triggered(quantity, user_question)
    /\ found_attribute = quantity

\* C10: the attribute found is never item_name: it is none, or one of price,
\* quantity, stock, warehouse, product_name.
C10_NeverItemName ==
    Scanned =>
        /\ found_attribute # item_name
        /\ found_attribute \in {<<>>, price, quantity, stock, warehouse, product_name}

\* a keyword of item_name is in the question and product_name is found
C10_Witness ==
    /\ Scanned
    /\ Triggered(item_name, user_question)
    /\ found_attribute = product_name

\* C11: with an item and an attribute matched, the answer is the sentence with
\* the value exactly when some row that matches the item has the attribute
\* field, whatever its value (the text "Not found" too); otherwise it is the
\* could-not-find message.
C11_ValueIffFieldPresent ==
    BothMatched =>
        /\ answer.kind \in {"value", "not_found"}
        /\ answer.kind = "value" <=> AnsweringRows # {}

====
